---- MODULE Spec2Model ----
(***************************************************************************)
(* gocrunch/matrix: the flat-buffer matrix (Matf64 / Matf32), its scratch  *)
(* pool and the operations on it, as a state machine.                      *)
(*                                                                         *)
(* A matrix is the record [r, c, vals]: the two shape fields and the Go    *)
(* slice, held as a sequence (Go offset k is position k+1).  Values are    *)
(* integers: moving, adding, subtracting and multiplying them is exact on  *)
(* the floats the program uses, and the receivers of Div hold multiples of *)
(* every divisor.  A quotient a reduction returns (Avg, Std) is kept as    *)
(* the pair num / den, Std as the pair of its square.                      *)
(* Every library error ends the process (printErr calls os.Exit), and so   *)
(* does a Go run-time panic: both are final states, err says which.        *)
(*                                                                         *)
(* Spec is the sequential program.  SpecArith, SpecReduce and SpecEye make *)
(* calls on a constructed receiver; SpecAlias, SpecGrow and SpecFirst run  *)
(* over mem, the Go heap of backing arrays, where slices share or do not   *)
(* share storage.  SpecConc runs T and Dot on threads, step by step, over  *)
(* the pool as a channel of bucket pointers; SpecConcFair adds that every  *)
(* thread is scheduled.                                                    *)
(***************************************************************************)
EXTENDS Integers, Sequences, FiniteSets, TLC

VARIABLES m, n, pool, ret, last, err, nops, mem, threads

vars == <<m, n, pool, ret, last, err, nops, mem, threads>>

(***************************************************************************)
(* Bounds of the exploration.                                              *)
(***************************************************************************)
MaxRows == 2
MaxCols == 3
NegDim == 1
MaxOps == 2
MaxVal == 2

\* capacity of the channel behind the pool
PoolCap == 10

RowDims == (0 - NegDim)..MaxRows
ColDims == (0 - NegDim)..MaxCols
RowIdx == (0 - (MaxRows + 1))..MaxRows
ColIdx == (0 - (MaxCols + 1))..MaxCols

(***************************************************************************)
(* Go slices.                                                              *)
(***************************************************************************)
Zeros(k) == [i \in 1..k |-> 0]

At(s, k) == s[k + 1]

InRange(s, k) == k >= 0 /\ k < Len(s)

\* copy(dst, src): the first min(len(dst), len(src)) elements of dst are replaced
CopyInto(dst, src) ==
    [i \in 1..Len(dst) |-> IF i <= Len(src) THEN src[i] ELSE dst[i]]

\* a loop of indexed stores vals[offs[i]] = vs[i]; the first offset outside
\* the slice panics and leaves the stores made so far
RECURSIVE StoreAll(_, _, _)
StoreAll(vals, offs, vs) ==
    IF Len(offs) = 0 THEN [vals |-> vals, ok |-> TRUE]
    ELSE IF ~InRange(vals, Head(offs)) THEN [vals |-> vals, ok |-> FALSE]
    ELSE StoreAll([vals EXCEPT ![Head(offs) + 1] = Head(vs)], Tail(offs), Tail(vs))

(***************************************************************************)
(* Constructors.                                                           *)
(***************************************************************************)
\* make([]float64, r*c, 2*r*c) panics on a negative length
CanMake(r, c) == r * c >= 0

Newf64(r, c) == [r |-> r, c |-> c, vals |-> Zeros(r * c)]

\* the loop of Eyef64 left to run from i: m.vals[i*i-1] = 1.0 while i < x
RECURSIVE EyeLoop(_, _, _)
EyeLoop(vals, i, x) ==
    IF i < x THEN EyeLoop([vals EXCEPT ![i * i] = 1], i + 1, x) ELSE vals

\* Newf64(x), then the loop from i = 1
Eyef64(x) == [r |-> x, c |-> x, vals |-> EyeLoop(Zeros(x * x), 1, x)]

\* Matf64FromData(v, a, b): a*b must equal len(v)
Matf64FromData(v, a, b) == [r |-> a, c |-> b, vals |-> v]

\* the caller's data: len distinct values above base
Data(base, len) == [k \in 1..len |-> base + k]

Constructed(base) ==
    { Matf64FromData(Data(base, a * b), a, b) :
        <<a, b>> \in { d \in RowDims \X ColDims : d[1] * d[2] >= 0 } }

\* the shapes a constructor call can produce within the bounds
Shapes == { d \in RowDims \X ColDims : d[1] * d[2] >= 0 }

NoRet == [kind |-> "none", mat |-> Newf64(0, 0)]
Self(x) == [kind |-> "self", mat |-> x]
Fresh(x) == [kind |-> "new", mat |-> x]

(***************************************************************************)
(* Reshape                                                                 *)
(***************************************************************************)
\* the two assignments the wrong way round
Reshape_Swapped(x, rows, cols) ==
    IF rows * cols # x.r * x.c
    THEN [m |-> x, ret |-> NoRet, err |-> "ShapeError"]
    ELSE LET y == [x EXCEPT !.r = cols, !.c = rows]
         IN  [m |-> y, ret |-> Self(y), err |-> "none"]

Reshape(x, rows, cols) ==
    IF rows * cols # x.r * x.c
    THEN [m |-> x, ret |-> NoRet, err |-> "ShapeError"]
    ELSE LET y == [x EXCEPT !.r = rows, !.c = cols]
         IN  [m |-> y, ret |-> Self(y), err |-> "none"]

\* Matf32.Reshape with a printErr that returned: the shape assigned anyway
Reshapef32_NoExit(x, rows, cols) ==
    LET y == [x EXCEPT !.r = rows, !.c = cols]
    IN  IF rows * cols # x.r * x.c
        THEN [m |-> y, ret |-> NoRet, err |-> "ShapeError"]
        ELSE [m |-> y, ret |-> Self(y), err |-> "none"]

\* Matf32.Reshape: printErr ends the process, the assignment follows the test
Reshapef32(x, rows, cols) ==
    IF rows * cols # x.r * x.c
    THEN [m |-> x, ret |-> NoRet, err |-> "ShapeError"]
    ELSE LET y == [x EXCEPT !.r = rows, !.c = cols]
         IN  [m |-> y, ret |-> Self(y), err |-> "none"]

(***************************************************************************)
(* The scratch pool: a buffered channel of buckets, a bucket is its vals.  *)
(***************************************************************************)
\* a receive that leaves the bucket in the channel
get_Peek(p) ==
    IF Len(p) > 0 THEN [bucket |-> Head(p), pool |-> p]
    ELSE [bucket |-> <<>>, pool |-> p]

\* get: receive from the channel, or allocate an empty bucket
get(p) ==
    IF Len(p) > 0 THEN [bucket |-> Head(p), pool |-> Tail(p)]
    ELSE [bucket |-> <<>>, pool |-> p]

\* a send that the channel always takes
put_Always(p, b) == Append(p, b)

\* put: send to the channel, or drop the bucket when the channel is full
put(p, b) == IF Len(p) < PoolCap THEN Append(p, b) ELSE p

(***************************************************************************)
(* T                                                                       *)
(***************************************************************************)
isRowVector(x) == x.r = 1

isColVector(x) == x.c = 1

\* the double loop reading m.vals[i*m.r+j]: the buffer in its old order
TFill_RowOrder(x, scratch) ==
    [k \in 1..Len(scratch) |->
        IF x.r > 0 /\ x.c > 0 /\ k <= x.r * x.c
        THEN At(x.vals, ((k - 1) \div x.r) * x.r + ((k - 1) % x.r))
        ELSE scratch[k]]

\* the scratch after the double loop: n.vals[idx] = m.vals[j*m.c+i], idx++
TFill(x, scratch) ==
    [k \in 1..Len(scratch) |->
        IF x.r > 0 /\ x.c > 0 /\ k <= x.r * x.c
        THEN At(x.vals, ((k - 1) % x.r) * x.c + ((k - 1) \div x.r))
        ELSE scratch[k]]

T(x, p) ==
    IF isRowVector(x) \/ isColVector(x)
    THEN [m |-> [x EXCEPT !.r = x.c, !.c = x.r], pool |-> p]
    ELSE LET g == get(p)
             b0 == IF Len(g.bucket) < x.c * x.r THEN Zeros(x.c * x.r) ELSE g.bucket
             b1 == TFill(x, b0)
         IN  [m |-> [r |-> x.c, c |-> x.r, vals |-> CopyInto(x.vals, b1)],
              pool |-> put(g.pool, b1)]

(***************************************************************************)
(* Set, SetCol, SetRow                                                     *)
(***************************************************************************)
\* m.vals[r*m.c+c] = val, no bounds check of its own
Set(x, i, j, val) ==
    LET w == StoreAll(x.vals, <<i * x.c + j>>, <<val>>)
        y == [x EXCEPT !.vals = w.vals]
    IN  IF w.ok THEN [m |-> y, ret |-> Self(y), err |-> "none"]
        ELSE [m |-> y, ret |-> NoRet, err |-> "panic"]

\* the column loop striding by the row count instead of the column count
ColOffsets_RowStride(x, col) ==
    [k \in 1..x.r |-> (k - 1) * x.r + (IF col >= 0 THEN col ELSE x.c + col)]

\* the offsets the loop "for r := 0; r < m.r; r++" of SetCol and Col visits
ColOffsets(x, col) ==
    [k \in 1..x.r |-> (k - 1) * x.c + (IF col >= 0 THEN col ELSE x.c + col)]

\* the offsets the loop "for r := 0; r < m.c; r++" of SetRow and Row visits
RowOffsets(x, row) ==
    [k \in 1..x.c |-> (IF row >= 0 THEN row ELSE x.r + row) * x.c + (k - 1)]

Stored(x, offs, vs) ==
    LET w == StoreAll(x.vals, offs, vs)
        y == [x EXCEPT !.vals = w.vals]
    IN  IF w.ok THEN [m |-> y, ret |-> Self(y), err |-> "none"]
        ELSE [m |-> y, ret |-> NoRet, err |-> "panic"]

\* kind "scalar": v = <<val>> is a float64; kind "slice": v is a []float64
SetCol(x, col, kind, v) ==
    IF kind = "scalar"
    THEN IF (col >= x.c) \/ (col < 0 - x.c)
         THEN [m |-> x, ret |-> NoRet, err |-> "IndexError"]
         ELSE Stored(x, ColOffsets(x, col), [k \in 1..x.r |-> v[1]])
    ELSE IF Len(v) # x.r
         THEN [m |-> x, ret |-> NoRet, err |-> "ArityError"]
         ELSE Stored(x, ColOffsets(x, col), v)

SetRow(x, row, kind, v) ==
    IF kind = "scalar"
    THEN IF (row >= x.r) \/ (row < 0 - x.r)
         THEN [m |-> x, ret |-> NoRet, err |-> "IndexError"]
         ELSE Stored(x, RowOffsets(x, row), [k \in 1..x.c |-> v[1]])
    ELSE IF Len(v) # x.c
         THEN [m |-> x, ret |-> NoRet, err |-> "ArityError"]
         ELSE Stored(x, RowOffsets(x, row), v)

(***************************************************************************)
(* Col, Row                                                                *)
(***************************************************************************)
\* a loop of indexed loads; an offset outside the slice panics
Loaded(x, offs, shape) ==
    IF \A k \in 1..Len(offs) : InRange(x.vals, offs[k])
    THEN [m |-> x, err |-> "none",
          ret |-> Fresh([r |-> shape[1], c |-> shape[2],
                         vals |-> [k \in 1..Len(offs) |-> At(x.vals, offs[k])]])]
    ELSE [m |-> x, ret |-> NoRet, err |-> "panic"]

Col(x, i) ==
    IF (i >= x.c) \/ (i < 0 - x.c)
    THEN [m |-> x, ret |-> NoRet, err |-> "IndexError"]
    ELSE IF ~CanMake(x.r, 1) THEN [m |-> x, ret |-> NoRet, err |-> "panic"]
    ELSE Loaded(x, ColOffsets(x, i), <<x.r, 1>>)

\* the bounds check off by one: x > m.r for x >= m.r
Row_OffByOne(x, i) ==
    IF (i > x.r) \/ (i < 0 - x.r)
    THEN [m |-> x, ret |-> NoRet, err |-> "IndexError"]
    ELSE IF ~CanMake(1, x.c) THEN [m |-> x, ret |-> NoRet, err |-> "panic"]
    ELSE Loaded(x, RowOffsets(x, i), <<1, x.c>>)

Row(x, i) ==
    IF (i >= x.r) \/ (i < 0 - x.r)
    THEN [m |-> x, ret |-> NoRet, err |-> "IndexError"]
    ELSE IF ~CanMake(1, x.c) THEN [m |-> x, ret |-> NoRet, err |-> "panic"]
    ELSE Loaded(x, RowOffsets(x, i), <<1, x.c>>)

(***************************************************************************)
(* Dot                                                                     *)
(***************************************************************************)
\* s[a:b]
Slice(s, a, b) == SubSeq(s, a + 1, b)

RECURSIVE dotf64Helper(_, _)
dotf64Helper(a, b) ==
    IF Len(a) = 0 THEN 0
    ELSE Head(a) * Head(b) + dotf64Helper(Tail(a), Tail(b))

\* the result buffer after the row loops, y being the transposed argument
DotVals(x, y) ==
    [k \in 1..(x.r * y.r) |->
        IF x.r > 0 /\ y.r > 0
        THEN LET i == (k - 1) \div y.r
                 j == (k - 1) % y.r
             IN  dotf64Helper(Slice(x.vals, i * x.c, i * x.c + x.c),
                              Slice(y.vals, j * y.c, j * y.c + y.c))
        ELSE 0]

Dot(x, y, p) ==
    IF x.c # y.r
    THEN [m |-> x, n |-> y, pool |-> p, ret |-> NoRet, err |-> "DimensionError"]
    ELSE IF ~CanMake(x.r, y.c)
    THEN [m |-> x, n |-> y, pool |-> p, ret |-> NoRet, err |-> "panic"]
    ELSE LET t1 == T(y, p)
             o  == [r |-> x.r, c |-> y.c, vals |-> DotVals(x, t1.m)]
             t2 == T(t1.m, t1.pool)
         IN  [m |-> x, n |-> t2.m, pool |-> t2.pool, ret |-> Fresh(o), err |-> "none"]

\* m.Dot(m): the argument transposed in place is the receiver
DotSelf(x, p) ==
    IF x.c # x.r
    THEN [m |-> x, n |-> x, pool |-> p, ret |-> NoRet, err |-> "DimensionError"]
    ELSE IF ~CanMake(x.r, x.c)
    THEN [m |-> x, n |-> x, pool |-> p, ret |-> NoRet, err |-> "panic"]
    ELSE LET t1 == T(x, p)
             o  == [r |-> x.r, c |-> x.c, vals |-> DotVals(t1.m, t1.m)]
             t2 == T(t1.m, t1.pool)
         IN  [m |-> t2.m, n |-> t2.m, pool |-> t2.pool, ret |-> Fresh(o), err |-> "none"]

(***************************************************************************)
(* Equals                                                                  *)
(***************************************************************************)
\* compares the shapes, then the first r*c elements (offset i is position i+1)
Equals(x, y) ==
    /\ x.r = y.r
    /\ x.c = y.c
    /\ \A i \in 0..(x.r * x.c - 1) : At(x.vals, i) = At(y.vals, i)

(***************************************************************************)
(* Append                                                                  *)
(***************************************************************************)
Append_(x, y) ==
    IF x.c # y.c
    THEN [m |-> x, ret |-> NoRet, err |-> "ColumnMismatchError"]
    ELSE LET z == [x EXCEPT !.vals = x.vals \o y.vals]
         IN  [m |-> z, ret |-> Self(z), err |-> "none"]

(***************************************************************************)
(* Mul, Add, Sub, Div.  w is the element width of the variant (64 for      *)
(* Matf64, 32 for Matf32); kind is the dynamic type of the argument the    *)
(* caller passed in the interface{} parameter.                             *)
(***************************************************************************)
Widths == {32, 64}

\* the spacing of float32 values around the non-negative integer x
RECURSIVE Ulp32(_)
Ulp32(x) == IF x < 2^24 THEN 1 ELSE 2 * Ulp32(x \div 2)

\* float32(v) of an integer v: round to nearest, ties to even
Float32(v) ==
    LET a == IF v < 0 THEN 0 - v ELSE v
        u == Ulp32(a)
        q == a \div u
        rem == a % u
        up == 2 * rem > u \/ (2 * rem = u /\ q % 2 = 1)
        z == IF up THEN (q + 1) * u ELSE q * u
    IN  IF v < 0 THEN 0 - z ELSE z

\* a result stored into an element of width w
Store(w, v) == IF w = 32 THEN Float32(v) ELSE v

\* the quotient of two floats holding integers; the inputs of this model
\* divide exactly, a zero divisor gives +Inf
ElemOp(op, a, b) ==
    CASE op = "Add" -> a + b
      [] op = "Sub" -> a - b
      [] op = "Mul" -> a * b
      [] op = "Div" -> IF b = 0 THEN "+Inf" ELSE a \div b

\* the type named by the scalar case of each method's type switch
ScalarCase(w, op) == IF w = 32 /\ op = "Sub" THEN "float32" ELSE "float64"

\* vecf64.Add(a, b) and its siblings: a[i] = a[i] op b[i] for every i, in
\* index order; same says that b is the very slice a
RECURSIVE VecLoop_Swapped(_, _, _, _, _, _)
VecLoop_Swapped(w, op, a, b, same, i) ==
    IF i > Len(a) THEN a
    ELSE LET bi == IF same THEN a[i] ELSE b[i]
         IN  VecLoop_Swapped(w, op, [a EXCEPT ![i] = Store(w, ElemOp(op, bi, a[i]))],
                             b, same, i + 1)

RECURSIVE VecLoop(_, _, _, _, _, _)
VecLoop(w, op, a, b, same, i) ==
    IF i > Len(a) THEN a
    ELSE LET bi == IF same THEN a[i] ELSE b[i]
         IN  VecLoop(w, op, [a EXCEPT ![i] = Store(w, ElemOp(op, a[i], bi))],
                     b, same, i + 1)

\* b = b[:len(a)], the first statement of each vecf64 function: the operand
\* is cut to the receiver's length, or extended into its spare capacity
\* (a constructed buffer has as many spare cells as elements, all zero);
\* beyond the capacity the reslice panics
Resliced(b, k) == [i \in 1..k |-> IF i <= Len(b) THEN b[i] ELSE 0]

\* for i := range m.vals { m.vals[i] op= v }
ScalarLoop(w, op, vals, s) ==
    [k \in 1..Len(vals) |-> Store(w, ElemOp(op, vals[k], s))]

\* y is the matrix operand (the receiver itself when same), s the scalar
Arith(w, op, x, kind, s, y, same) ==
    IF kind = ScalarCase(w, op)
    THEN LET z == [x EXCEPT !.vals = ScalarLoop(w, op, x.vals, Store(w, s))]
         IN  [m |-> z, n |-> y, ret |-> Self(z), err |-> "none"]
    ELSE IF kind = "mat"
    THEN IF y.r # x.r
         THEN [m |-> x, n |-> y, ret |-> NoRet, err |-> "ShapeError"]
         ELSE IF y.c # x.c
         THEN [m |-> x, n |-> y, ret |-> NoRet, err |-> "ShapeError"]
         ELSE IF Len(x.vals) > 2 * Len(y.vals)
         THEN [m |-> x, n |-> y, ret |-> NoRet, err |-> "panic"]
         ELSE LET b == Resliced(y.vals, Len(x.vals))
                  z == [x EXCEPT !.vals = VecLoop(w, op, x.vals, b, same, 1)]
              IN  [m |-> z, n |-> IF same THEN z ELSE y, ret |-> Self(z), err |-> "none"]
    ELSE [m |-> x, n |-> y, ret |-> NoRet, err |-> "TypeError"]

(***************************************************************************)
(* Sum, Avg, Prd, Std, Min, Max.  args is the variadic int list.  A float  *)
(* result is the pair num/den of integers, the division left undone (den 0 *)
(* is the NaN of 0/0); Std's result is the square root of its pair.  reads *)
(* lists the buffer offsets the call indexed, in order.                    *)
(***************************************************************************)
Value(num, den, index, reads) ==
    [kind |-> "value", num |-> num, den |-> den, index |-> index, reads |-> reads]

NoValue(reads) ==
    [kind |-> "none", num |-> 0, den |-> 1, index |-> 0, reads |-> reads]

\* the bounds test without its "slice < 0" half
Selection_NoLowerBound(x, args) ==
    IF Len(args) = 0 THEN [err |-> "none", form |-> "all"]
    ELSE IF Len(args) = 2
    THEN IF args[1] = 0
         THEN IF args[2] >= x.r
              THEN [err |-> "IndexError", form |-> "row"]
              ELSE [err |-> "none", form |-> "row"]
         ELSE IF args[1] = 1
         THEN IF args[2] >= x.c
              THEN [err |-> "IndexError", form |-> "col"]
              ELSE [err |-> "none", form |-> "col"]
         ELSE [err |-> "AxisError", form |-> "none"]
    ELSE [err |-> "ArgCountError", form |-> "none"]

\* switch len(args), switch axis and the bounds test of the slice, which are
\* the same in the six methods
Selection(x, args) ==
    IF Len(args) = 0 THEN [err |-> "none", form |-> "all"]
    ELSE IF Len(args) = 2
    THEN IF args[1] = 0
         THEN IF (args[2] >= x.r) \/ (args[2] < 0)
              THEN [err |-> "IndexError", form |-> "row"]
              ELSE [err |-> "none", form |-> "row"]
         ELSE IF args[1] = 1
         THEN IF (args[2] >= x.c) \/ (args[2] < 0)
              THEN [err |-> "IndexError", form |-> "col"]
              ELSE [err |-> "none", form |-> "col"]
         ELSE [err |-> "AxisError", form |-> "none"]
    ELSE [err |-> "ArgCountError", form |-> "none"]

\* the column loop striding by the row count
LoopOffsets_RowStride(x, args, form) ==
    CASE form = "all" -> [k \in 1..Len(x.vals) |-> k - 1]
      [] form = "row" -> [k \in 1..x.c |-> args[2] * x.c + (k - 1)]
      [] form = "col" -> [k \in 1..x.r |-> (k - 1) * x.r + args[2]]

\* the offsets the accumulating loops index
LoopOffsets(x, args, form) ==
    CASE form = "all" -> [k \in 1..Len(x.vals) |-> k - 1]
      [] form = "row" -> [k \in 1..x.c |-> args[2] * x.c + (k - 1)]
      [] form = "col" -> [k \in 1..x.r |-> (k - 1) * x.c + args[2]]

\* the values read at offs; the first offset outside the slice panics
RECURSIVE ReadAll(_, _)
ReadAll(vals, offs) ==
    IF Len(offs) = 0 THEN [vs |-> <<>>, ok |-> TRUE]
    ELSE IF ~InRange(vals, Head(offs)) THEN [vs |-> <<>>, ok |-> FALSE]
    ELSE LET rest == ReadAll(vals, Tail(offs))
         IN  [vs |-> <<At(vals, Head(offs))>> \o rest.vs, ok |-> rest.ok]

RECURSIVE SumSeq(_)
SumSeq(vs) == IF Len(vs) = 0 THEN 0 ELSE Head(vs) + SumSeq(Tail(vs))

RECURSIVE PrdSeq(_)
PrdSeq(vs) == IF Len(vs) = 0 THEN 1 ELSE Head(vs) * PrdSeq(Tail(vs))

\* the row form dividing by the row count and the column form by the
\* column count
AvgCount_Swapped(x, form) ==
    CASE form = "all" -> Len(x.vals)
      [] form = "row" -> x.r
      [] form = "col" -> x.c

\* the divisor of Avg: len(m.vals), m.c or m.r
AvgCount(x, form) ==
    CASE form = "all" -> Len(x.vals)
      [] form = "row" -> x.c
      [] form = "col" -> x.r

\* sum := 0.0 and sum += ..., or prd := 1.0 and prd *= ...
Accumulated(op, vs) == IF op = "Prd" THEN PrdSeq(vs) ELSE SumSeq(vs)

\* only Avg divides what it accumulated
Divisor(op, x, form) == IF op = "Avg" THEN AvgCount(x, form) ELSE 1

\* Sum, Avg and Prd: the argument handling, the loop, the division
Reduced(op, x, args) ==
    LET sel == Selection(x, args)
        offs == LoopOffsets(x, args, sel.form)
        rd == ReadAll(x.vals, offs)
    IN  IF sel.err # "none" THEN [m |-> x, ret |-> NoValue(<<>>), err |-> sel.err]
        ELSE IF ~rd.ok THEN [m |-> x, ret |-> NoValue(offs), err |-> "panic"]
        ELSE [m |-> x, err |-> "none",
              ret |-> Value(Accumulated(op, rd.vs), Divisor(op, x, sel.form), 0, offs)]

Sum(x, args) == Reduced("Sum", x, args)

Avg(x, args) == Reduced("Avg", x, args)

Prd(x, args) == Reduced("Prd", x, args)

\* sum of (avg - v)^2 with avg = s/cnt, times cnt^2 to stay in the integers
RECURSIVE SqDev(_, _, _)
SqDev(vs, s, cnt) ==
    IF Len(vs) = 0 THEN 0
    ELSE (s - cnt * Head(vs)) * (s - cnt * Head(vs)) + SqDev(Tail(vs), s, cnt)

\* avg := m.Avg(args...), then the loop over the same elements, then
\* math.Sqrt(sum / float64(len(m.vals))) in all three forms
Std(x, args) ==
    LET sel == Selection(x, args)
        offs == LoopOffsets(x, args, sel.form)
        rd == ReadAll(x.vals, offs)
        cnt == AvgCount(x, sel.form)
    IN  IF sel.err # "none" THEN [m |-> x, ret |-> NoValue(<<>>), err |-> sel.err]
        ELSE IF ~rd.ok THEN [m |-> x, ret |-> NoValue(offs), err |-> "panic"]
        ELSE [m |-> x,
              ret |-> Value(SqDev(rd.vs, SumSeq(rd.vs), cnt), cnt * cnt * Len(x.vals),
                            0, offs \o offs),
              err |-> "none"]

\* Min and Max read the first selected element before their loop, which
\* starts at 1
ScanOffsets(x, args, form) ==
    CASE form = "all" -> <<0>> \o [k \in 1..(Len(x.vals) - 1) |-> k]
      [] form = "row" -> <<args[2] * x.c>> \o [k \in 1..(x.c - 1) |-> args[2] * x.c + k]
      [] form = "col" -> <<args[2]>> \o [k \in 1..(x.r - 1) |-> k * x.c + args[2]]

\* a candidate equal to the best value replaces it too
Beats_OrEqual(op, a, b) ==
    IF op = "Min" THEN a <= b ELSE a >= b

\* if m.vals[..] < minVal (Min), > maxVal (Max)
Beats(op, a, b) ==
    IF op = "Min" THEN a < b ELSE a > b

\* the loop from i = 1 over the values read, vs[i+1] read at loop index i
RECURSIVE ScanFrom(_, _, _, _, _)
ScanFrom(op, vs, i, index, best) ==
    IF i >= Len(vs) THEN [index |-> index, val |-> best]
    ELSE IF Beats(op, vs[i + 1], best)
    THEN ScanFrom(op, vs, i + 1, i, vs[i + 1])
    ELSE ScanFrom(op, vs, i + 1, index, best)

\* index = 0, minVal = the first element, then the loop
Scan(op, vs) == ScanFrom(op, vs, 1, 0, vs[1])

MinMax(op, x, args) ==
    LET sel == Selection(x, args)
        offs == ScanOffsets(x, args, sel.form)
        rd == ReadAll(x.vals, offs)
    IN  IF sel.err # "none" THEN [m |-> x, ret |-> NoValue(<<>>), err |-> sel.err]
        ELSE IF ~rd.ok THEN [m |-> x, ret |-> NoValue(offs), err |-> "panic"]
        ELSE LET found == Scan(op, rd.vs)
             IN  [m |-> x, ret |-> Value(found.val, 1, found.index, offs), err |-> "none"]

Min(x, args) == MinMax("Min", x, args)

Max(x, args) == MinMax("Max", x, args)

(***************************************************************************)
(* Copy, ToSlice1D, ToSlice2D on matrix values.                            *)
(***************************************************************************)
\* n := Newf64(m.r, m.c); copy(n.vals, m.vals)
Copy(x) ==
    IF ~CanMake(x.r, x.c) THEN [m |-> x, ret |-> NoRet, err |-> "panic"]
    ELSE [m |-> x, err |-> "none",
          ret |-> Fresh([r |-> x.r, c |-> x.c, vals |-> CopyInto(Zeros(x.r * x.c), x.vals)])]

\* make([]float64, len(m.vals)) and copy
ToSlice1D(x) == CopyInto(Zeros(Len(x.vals)), x.vals)

\* make([][]float64, m.r), a make([]float64, m.c) per row, and the loads
\* m.vals[i*m.c+j]; a negative length or an offset outside the buffer panics
ToSlice2D(x) ==
    IF x.r < 0 \/ (x.r > 0 /\ x.c < 0) THEN [rows |-> <<>>, ok |-> FALSE]
    ELSE IF \E i \in 0..(x.r - 1), j \in 0..(x.c - 1) : ~InRange(x.vals, i * x.c + j)
    THEN [rows |-> <<>>, ok |-> FALSE]
    ELSE [rows |-> [i \in 1..x.r |-> [j \in 1..x.c |-> At(x.vals, (i - 1) * x.c + (j - 1))]],
          ok |-> TRUE]

(***************************************************************************)
(* Go's memory, for the operations whose effect depends on which array a   *)
(* slice points into and on its capacity.  arrays is the sequence of the   *)
(* arrays allocated so far, an array the sequence of its cells (its        *)
(* length is the capacity); a slice is [buf, len], always starting at the  *)
(* first cell; a matrix object is its slice with the fields r and c.       *)
(***************************************************************************)
Cap(h, s) == Len(h[s.buf])

\* the elements a slice shows
View(h, s) == SubSeq(h[s.buf], 1, s.len)

\* the matrix value an object shows
Mat(h, o) == [r |-> o.r, c |-> o.c, vals |-> View(h, o)]

\* make([]float64, len(vals), cap) filled with vals: a new array
Make(h, vals, cap) ==
    [arrays |-> Append(h, CopyInto(Zeros(cap), vals)),
     s |-> [buf |-> Len(h) + 1, len |-> Len(vals)]]

\* the stores of an operation on the matrix value of o, written through o
Put(h, o, vals) == [h EXCEPT ![o.buf] = CopyInto(h[o.buf], vals)]

\* append(s, vs...): within the capacity the cells after len are written
\* and the array stays; beyond it a new array is allocated, whose capacity
\* the language leaves open (here: just enough, or twice that)
GoAppend(h, s, vs, spare) ==
    IF s.len + Len(vs) <= Cap(h, s)
    THEN [arrays |-> [h EXCEPT ![s.buf] = CopyInto(h[s.buf], View(h, s) \o vs)],
          s |-> [buf |-> s.buf, len |-> s.len + Len(vs)]]
    ELSE Make(h, View(h, s) \o vs,
              IF spare THEN 2 * (s.len + Len(vs)) ELSE s.len + Len(vs))

\* the new matrix laid over the most recent array instead of its own
NewObject_Shared(h, x) ==
    [arrays |-> [h EXCEPT ![Len(h)] = CopyInto(h[Len(h)], x.vals)],
     obj |-> [r |-> x.r, c |-> x.c, buf |-> Len(h), len |-> Len(x.vals)]]

\* the matrix object of a freshly constructed matrix value: Newf64 and
\* Matf64FromData make its buffer with twice its length as capacity
NewObject(h, x) ==
    LET mk == Make(h, x.vals, 2 * Len(x.vals))
    IN  [arrays |-> mk.arrays,
         obj |-> [r |-> x.r, c |-> x.c, buf |-> mk.s.buf, len |-> mk.s.len]]

(***************************************************************************)
(* AppendRow, AppendCol, Concat on a matrix object o in memory h.          *)
(***************************************************************************)
Grown(h, o, e) == [arrays |-> h, obj |-> o, err |-> e]

AppendRow(h, o, v) ==
    IF o.c # Len(v) THEN Grown(h, o, "LengthError")
    ELSE IF Cap(h, o) < o.len + Len(v)
    THEN LET newVals == Make(h, View(h, o) \o v, o.len + Len(v) * 2)
         IN  Grown(newVals.arrays,
                   [o EXCEPT !.buf = newVals.s.buf, !.len = newVals.s.len, !.r = o.r + 1],
                   "none")
    ELSE LET ap == GoAppend(h, o, v, FALSE)
         IN  Grown(ap.arrays,
                   [o EXCEPT !.buf = ap.s.buf, !.len = ap.s.len, !.r = o.r + 1],
                   "none")

\* the values the closing double loop stores, in its order: q[i][j] for
\* i < rows and j < cols
Flat(q, rows, cols) ==
    [k \in 1..(IF rows > 0 /\ cols > 0 THEN rows * cols ELSE 0) |->
        q[((k - 1) \div cols) + 1][((k - 1) % cols) + 1]]

\* the double loop m.vals[i*m.c+j] = q[i][j] over the appended buffer
Rewritten(ap, o, q, cols) ==
    LET vs == Flat(q, o.r, cols)
        st == StoreAll(View(ap.arrays, ap.s), [k \in 1..Len(vs) |-> k - 1], vs)
    IN  Grown(Put(ap.arrays, ap.s, st.vals),
              [r |-> o.r, c |-> cols, buf |-> ap.s.buf, len |-> ap.s.len],
              IF st.ok THEN "none" ELSE "panic")

\* the new column put in front of each row
AppendCol_Front(h, o, v, spare) ==
    IF o.r # Len(v) THEN Grown(h, o, "LengthError")
    ELSE LET q == ToSlice2D(Mat(h, o))
         IN  IF ~q.ok THEN Grown(h, o, "panic")
             ELSE Rewritten(GoAppend(h, o, v, spare), o,
                            [i \in 1..Len(q.rows) |-> <<v[i]>> \o q.rows[i]], o.c + 1)

AppendCol(h, o, v, spare) ==
    IF o.r # Len(v) THEN Grown(h, o, "LengthError")
    ELSE LET q == ToSlice2D(Mat(h, o))
         IN  IF ~q.ok THEN Grown(h, o, "panic")
             ELSE Rewritten(GoAppend(h, o, v, spare), o,
                            [i \in 1..Len(q.rows) |-> Append(q.rows[i], v[i])], o.c + 1)

\* y is the object of the passed matrix, o itself in m.Concat(m)
Concat(h, o, y, spare) ==
    IF o.r # y.r THEN Grown(h, o, "RowMismatchError")
    ELSE LET q == ToSlice2D(Mat(h, o))
             t == ToSlice1D(Mat(h, y))
             r == ToSlice2D(Mat(h, y))
         IN  IF ~q.ok \/ ~r.ok THEN Grown(h, o, "panic")
             ELSE Rewritten(GoAppend(h, o, t, spare), o,
                            [i \in 1..Len(q.rows) |-> q.rows[i] \o r.rows[i]], o.c + y.c)

(***************************************************************************)
(* The program: one receiver m, the argument n of the last binary call,    *)
(* the pool, what the last call returned and how it ended.                 *)
(***************************************************************************)
\* the values a caller passes: a scalar, and slices of every length in reach
Scalar == <<7>>
SliceArg(len) == Data(20, len)
\* the data of the receiver starts above 0, the data of an argument above 10
Arguments == Constructed(10)

\* the memory of a program that keeps no second reference to a buffer
NoRes == [kind |-> "none", r |-> 0, c |-> 0, parts |-> <<>>]
NoViews == [src |-> Newf64(0, 0), res |-> [kind |-> "none", r |-> 0, c |-> 0, vals |-> <<>>],
            data |-> <<>>]
\* no call in progress on another thread
NoThreads == <<>>

NoMem == [arrays |-> <<>>, src |-> [r |-> 0, c |-> 0, buf |-> 0, len |-> 0], res |-> NoRes,
          data |-> [buf |-> 0, len |-> 0], was |-> NoViews]

Call(op, a, b, kind, v, arg) ==
    [op |-> op, a |-> a, b |-> b, kind |-> kind, v |-> v,
     m0 |-> m, n0 |-> arg, pool0 |-> pool,
     prev |-> [op |-> last.op, m0 |-> last.m0, pool0 |-> last.pool0]]

Init ==
    /\ m \in Constructed(0)
    /\ n = Newf64(0, 0)
    /\ pool = <<>>
    /\ ret = NoRet
    /\ last = [op |-> "new", a |-> 0, b |-> 0, kind |-> "none", v |-> <<>>,
               m0 |-> Newf64(0, 0), n0 |-> Newf64(0, 0), pool0 |-> <<>>,
               prev |-> [op |-> "none", m0 |-> Newf64(0, 0), pool0 |-> <<>>]]
    /\ err = "none"
    /\ nops = 0
    /\ mem = NoMem
    /\ threads = NoThreads

Running == err = "none" /\ nops < MaxOps

\* a call on the receiver alone: its argument object and the pool stay
Unary(o, l) ==
    /\ m' = o.m /\ ret' = o.ret /\ err' = o.err
    /\ last' = l
    /\ nops' = nops + 1
    /\ UNCHANGED <<n, pool, mem, threads>>

CallReshape ==
    /\ Running
    /\ \E rows \in ColDims, cols \in ColDims :
         Unary(Reshape(m, rows, cols), Call("Reshape", rows, cols, "none", <<>>, n))

CallSet ==
    /\ Running
    /\ \E i \in 0..(MaxRows - 1), j \in 0..(MaxCols - 1) :
         Unary(Set(m, i, j, 9), Call("Set", i, j, "scalar", <<9>>, n))

CallSetCol ==
    /\ Running
    /\ \E col \in ColIdx :
         \/ Unary(SetCol(m, col, "scalar", Scalar), Call("SetCol", col, 0, "scalar", Scalar, n))
         \/ \E len \in 0..MaxRows :
              Unary(SetCol(m, col, "slice", SliceArg(len)),
                    Call("SetCol", col, 0, "slice", SliceArg(len), n))

CallSetRow ==
    /\ Running
    /\ \E row \in RowIdx :
         \/ Unary(SetRow(m, row, "scalar", Scalar), Call("SetRow", row, 0, "scalar", Scalar, n))
         \/ \E len \in 0..MaxCols :
              Unary(SetRow(m, row, "slice", SliceArg(len)),
                    Call("SetRow", row, 0, "slice", SliceArg(len), n))

CallCol ==
    /\ Running
    /\ \E i \in ColIdx : Unary(Col(m, i), Call("Col", i, 0, "none", <<>>, n))

CallRow ==
    /\ Running
    /\ \E i \in RowIdx : Unary(Row(m, i), Call("Row", i, 0, "none", <<>>, n))

CallT ==
    /\ Running
    /\ LET o == T(m, pool) IN
         /\ m' = o.m /\ pool' = o.pool /\ ret' = Self(o.m) /\ err' = "none"
         /\ last' = Call("T", 0, 0, "none", <<>>, n)
         /\ nops' = nops + 1
         /\ UNCHANGED <<n, mem, threads>>

CallDot ==
    /\ Running
    /\ \E arg \in Arguments :
         LET o == Dot(m, arg, pool) IN
         /\ m' = o.m /\ n' = o.n /\ pool' = o.pool /\ ret' = o.ret /\ err' = o.err
         /\ last' = Call("Dot", 0, 0, "none", <<>>, arg)
         /\ nops' = nops + 1
         /\ UNCHANGED <<mem, threads>>

CallAppend ==
    /\ Running
    /\ \E arg \in Arguments :
         LET o == Append_(m, arg) IN
         /\ m' = o.m /\ n' = arg /\ ret' = o.ret /\ err' = o.err
         /\ last' = Call("Append", 0, 0, "none", <<>>, arg)
         /\ nops' = nops + 1
         /\ UNCHANGED <<pool, mem, threads>>

Next ==
    \/ CallReshape
    \/ CallSet
    \/ CallSetCol
    \/ CallSetRow
    \/ CallCol
    \/ CallRow
    \/ CallT
    \/ CallDot
    \/ CallAppend

Spec == Init /\ [][Next]_vars

(***************************************************************************)
(* Element-wise arithmetic: one call of Mul, Add, Sub or Div on a          *)
(* constructed receiver, with a scalar of each dynamic type, a constructed *)
(* matrix operand, or the receiver itself.                                 *)
(***************************************************************************)
\* receivers hold multiples of 6 and operands 1, 2 or 3, so that every
\* quotient is exact
ArithReceivers ==
    { Matf64FromData([k \in 1..(d[1] * d[2]) |-> 6 * k], d[1], d[2]) : d \in Shapes }

ArithOperands ==
    { Matf64FromData([k \in 1..(d[1] * d[2]) |-> 1 + (k % 3)], d[1], d[2]) : d \in Shapes }

Start(S) ==
    /\ m \in S
    /\ n = Newf64(0, 0)
    /\ pool = <<>>
    /\ ret = NoRet
    /\ last = [op |-> "new", a |-> 0, b |-> 0, kind |-> "none", v |-> <<>>,
               m0 |-> Newf64(0, 0), n0 |-> Newf64(0, 0), pool0 |-> <<>>,
               prev |-> [op |-> "none", m0 |-> Newf64(0, 0), pool0 |-> <<>>]]
    /\ err = "none"
    /\ nops = 0
    /\ mem = NoMem
    /\ threads = NoThreads

InitArith == Start(ArithReceivers)

Once == err = "none" /\ nops = 0

\* a call with an argument object
Binary(o, l) ==
    /\ m' = o.m /\ n' = o.n /\ ret' = o.ret /\ err' = o.err
    /\ last' = l
    /\ nops' = nops + 1
    /\ UNCHANGED <<pool, mem, threads>>

\* the arguments a caller can pass to op of the variant of width w
ArithCalls(op, w) ==
    \/ \E kind \in {"float64", "float32", "int"} :
         Binary(Arith(w, op, m, kind, 2, n, FALSE), Call(op, w, 0, kind, <<2>>, n))
    \/ \E arg \in ArithOperands :
         Binary(Arith(w, op, m, "mat", 2, arg, FALSE), Call(op, w, 0, "mat", <<>>, arg))
    \/ Binary(Arith(w, op, m, "mat", 2, m, TRUE), Call(op, w, 0, "self", <<>>, m))

CallMul ==
    /\ Once
    /\ \E w \in Widths : ArithCalls("Mul", w)

CallAdd ==
    /\ Once
    /\ \E w \in Widths : ArithCalls("Add", w)

CallSub ==
    /\ Once
    /\ \E w \in Widths : ArithCalls("Sub", w)

CallDiv ==
    /\ Once
    /\ \E w \in Widths : ArithCalls("Div", w)

NextArith ==
    \/ CallMul
    \/ CallAdd
    \/ CallSub
    \/ CallDiv

SpecArith == InitArith /\ [][NextArith]_vars

(***************************************************************************)
(* Reductions: one call of Sum, Avg, Prd, Std, Min or Max on a constructed *)
(* receiver, with every argument list.  The receiver holds one value of    *)
(* 1..MaxVal everywhere but at up to two positions, which hold another:    *)
(* uniform data, a single extreme, and ties at any pair of positions.      *)
(***************************************************************************)
ReduceInputs ==
    UNION { { Matf64FromData([k \in 1..(d[1] * d[2]) |-> IF k = p \/ k = q THEN b ELSE a],
                             d[1], d[2]) :
              p \in 0..(d[1] * d[2]), q \in 0..(d[1] * d[2]),
              a \in 1..MaxVal, b \in 1..MaxVal } :
            d \in Shapes }

\* no argument, one, two (every axis and index in reach) and three
ArgLists ==
    {<<>>, <<0>>, <<0, 0, 0>>} \cup { <<axis, i>> : axis \in {0 - 1, 0, 1, 2}, i \in ColIdx }

InitReduce == Start(ReduceInputs)

CallSum ==
    /\ Once
    /\ \E args \in ArgLists : Unary(Sum(m, args), Call("Sum", 0, 0, "none", args, n))

CallAvg ==
    /\ Once
    /\ \E args \in ArgLists : Unary(Avg(m, args), Call("Avg", 0, 0, "none", args, n))

CallPrd ==
    /\ Once
    /\ \E args \in ArgLists : Unary(Prd(m, args), Call("Prd", 0, 0, "none", args, n))

CallStd ==
    /\ Once
    /\ \E args \in ArgLists : Unary(Std(m, args), Call("Std", 0, 0, "none", args, n))

CallMin ==
    /\ Once
    /\ \E args \in ArgLists : Unary(Min(m, args), Call("Min", 0, 0, "none", args, n))

CallMax ==
    /\ Once
    /\ \E args \in ArgLists : Unary(Max(m, args), Call("Max", 0, 0, "none", args, n))

NextReduce ==
    \/ CallSum
    \/ CallAvg
    \/ CallPrd
    \/ CallStd
    \/ CallMin
    \/ CallMax

SpecReduce == InitReduce /\ [][NextReduce]_vars

(***************************************************************************)
(* Results kept by the caller.  mem holds the arrays, the matrix src that  *)
(* was built from the caller's slice data, and res, the last result the    *)
(* caller took from src: a matrix, a slice or a slice of slices.  The      *)
(* caller then writes through any of the three.  m is the value of src;    *)
(* mem.was holds what the three showed before the last call.               *)
(***************************************************************************)
ResView(h, res) ==
    [kind |-> res.kind, r |-> res.r, c |-> res.c,
     vals |-> [i \in 1..Len(res.parts) |-> View(h, res.parts[i])]]

Views(mm) ==
    [src |-> Mat(mm.arrays, mm.src), res |-> ResView(mm.arrays, mm.res),
     data |-> View(mm.arrays, mm.data)]

NoCall ==
    [op |-> "new", a |-> 0, b |-> 0, kind |-> "none", v |-> <<>>,
     m0 |-> Newf64(0, 0), n0 |-> Newf64(0, 0), pool0 |-> <<>>,
     prev |-> [op |-> "none", m0 |-> Newf64(0, 0), pool0 |-> <<>>]]

\* data := []float64{1, ..., r*c}; src := Matf64FromData(data, r, c)
InitBuf ==
    /\ \E d \in Shapes :
         LET data == Make(<<>>, Data(0, d[1] * d[2]), d[1] * d[2])
             made == NewObject(data.arrays, Matf64FromData(View(data.arrays, data.s), d[1], d[2]))
             mm == [arrays |-> made.arrays, src |-> made.obj, res |-> NoRes,
                    data |-> data.s, was |-> NoViews]
         IN  /\ mem = [mm EXCEPT !.was = Views(mm)]
             /\ m = Mat(mm.arrays, mm.src)
    /\ n = Newf64(0, 0)
    /\ pool = <<>>
    /\ ret = NoRet
    /\ last = NoCall
    /\ err = "none"
    /\ nops = 0
    /\ threads = NoThreads

\* a call that leaves the memory mm and ends with e
Effect(mm, l, e) ==
    /\ mem' = [mm EXCEPT !.was = Views(mem)]
    /\ m' = Mat(mm.arrays, mm.src)
    /\ ret' = IF mm.res.kind = "matrix"
              THEN Fresh(Mat(mm.arrays, [r |-> mm.res.r, c |-> mm.res.c,
                                         buf |-> mm.res.parts[1].buf,
                                         len |-> mm.res.parts[1].len]))
              ELSE NoRet
    /\ err' = e
    /\ last' = l
    /\ nops' = nops + 1
    /\ UNCHANGED <<n, pool, threads>>

MatrixRes(o) ==
    [kind |-> "matrix", r |-> o.r, c |-> o.c, parts |-> <<[buf |-> o.buf, len |-> o.len]>>]

\* the caller keeps the matrix that a call returned
Kept(mm, out) ==
    IF out.err # "none" THEN [mm |-> mm, err |-> out.err]
    ELSE LET made == NewObject(mm.arrays, out.ret.mat)
         IN  [mm |-> [mm EXCEPT !.arrays = made.arrays, !.res = MatrixRes(made.obj)],
              err |-> "none"]

TakeCopy ==
    /\ Running
    /\ LET k == Kept(mem, Copy(m))
       IN  Effect(k.mm, Call("Copy", 0, 0, "new", <<>>, n), k.err)

TakeRow ==
    /\ Running
    /\ \E i \in RowIdx :
         LET k == Kept(mem, Row(m, i))
         IN  Effect(k.mm, Call("Row", i, 0, "new", <<>>, n), k.err)

TakeCol ==
    /\ Running
    /\ \E i \in ColIdx :
         LET k == Kept(mem, Col(m, i))
         IN  Effect(k.mm, Call("Col", i, 0, "new", <<>>, n), k.err)

TakeToSlice1D ==
    /\ Running
    /\ LET mk == Make(mem.arrays, ToSlice1D(m), Len(m.vals))
       IN  Effect([mem EXCEPT !.arrays = mk.arrays,
                              !.res = [kind |-> "slice", r |-> 0, c |-> 0, parts |-> <<mk.s>>]],
                  Call("ToSlice1D", 0, 0, "new", <<>>, n), "none")

\* one make([]float64, m.c) per row
RECURSIVE MakeRows(_, _)
MakeRows(h, rows) ==
    IF Len(rows) = 0 THEN [arrays |-> h, parts |-> <<>>]
    ELSE LET mk == Make(h, Head(rows), Len(Head(rows)))
             rest == MakeRows(mk.arrays, Tail(rows))
         IN  [arrays |-> rest.arrays, parts |-> <<mk.s>> \o rest.parts]

TakeToSlice2D ==
    /\ Running
    /\ LET q == ToSlice2D(m)
           mk == MakeRows(mem.arrays, q.rows)
       IN  IF q.ok
           THEN Effect([mem EXCEPT !.arrays = mk.arrays,
                                   !.res = [kind |-> "slices", r |-> 0, c |-> 0,
                                            parts |-> mk.parts]],
                       Call("ToSlice2D", 0, 0, "new", <<>>, n), "none")
           ELSE Effect(mem, Call("ToSlice2D", 0, 0, "new", <<>>, n), "panic")

\* a second matrix built from the same caller slice
TakeFromData ==
    /\ Running
    /\ LET x == Matf64FromData(View(mem.arrays, mem.data), mem.src.r, mem.src.c)
           k == Kept(mem, [m |-> m, ret |-> Fresh(x), err |-> "none"])
       IN  Effect(k.mm, Call("Matf64FromData", 0, 0, "new", <<>>, n), k.err)

\* the matrix object a write goes through: src, or res when it is a matrix
HasTarget(mm, t) == t = "src" \/ mm.res.kind = "matrix"

Target(mm, t) ==
    IF t = "src" THEN mm.src
    ELSE [r |-> mm.res.r, c |-> mm.res.c,
          buf |-> mm.res.parts[1].buf, len |-> mm.res.parts[1].len]

Retarget(mm, t, h, o) ==
    IF t = "src" THEN [mm EXCEPT !.arrays = h, !.src = o]
    ELSE [mm EXCEPT !.arrays = h, !.res = MatrixRes(o)]

WriteSet ==
    /\ Running
    /\ \E t \in {"src", "res"}, i \in 0..(MaxRows - 1), j \in 0..(MaxCols - 1) :
         /\ HasTarget(mem, t)
         /\ LET o == Target(mem, t)
                out == Set(Mat(mem.arrays, o), i, j, 9)
            IN  Effect(Retarget(mem, t, Put(mem.arrays, o, out.m.vals), o),
                       Call("Set", i, j, t, <<9>>, n), out.err)

\* s[k] = 9 on the caller's own slice data, or on row p of a slice result
WriteElement ==
    /\ Running
    /\ \E k \in 0..(MaxRows * MaxCols - 1) :
         \/ /\ k < mem.data.len
            /\ Effect([mem EXCEPT !.arrays[mem.data.buf][k + 1] = 9],
                      Call("store", 0, k, "data", <<9>>, n), "none")
         \/ \E p \in 1..MaxRows :
              /\ mem.res.kind \in {"slice", "slices"}
              /\ p <= Len(mem.res.parts)
              /\ k < mem.res.parts[p].len
              /\ Effect([mem EXCEPT !.arrays[mem.res.parts[p].buf][k + 1] = 9],
                        Call("store", p, k, "res", <<9>>, n), "none")

WriteAppendRow ==
    /\ Running
    /\ \E t \in {"src", "res"}, len \in 0..MaxCols :
         /\ HasTarget(mem, t)
         /\ LET out == AppendRow(mem.arrays, Target(mem, t), SliceArg(len))
            IN  Effect(Retarget(mem, t, out.arrays, out.obj),
                       Call("AppendRow", 0, 0, t, SliceArg(len), n), out.err)

NextAlias ==
    \/ TakeCopy
    \/ TakeRow
    \/ TakeCol
    \/ TakeToSlice1D
    \/ TakeToSlice2D
    \/ TakeFromData
    \/ WriteSet
    \/ WriteElement
    \/ WriteAppendRow

SpecAlias == InitBuf /\ [][NextAlias]_vars

(***************************************************************************)
(* Growing a matrix: calls of AppendRow, AppendCol and Concat on src, one  *)
(* after another.  last.a is the array src pointed into before the call.   *)
(***************************************************************************)
\* a call on src that leaves the arrays h and the object o, the passed
\* matrix showing y afterwards
Outcome(h, o, y, l, e) ==
    /\ mem' = [mem EXCEPT !.arrays = h, !.src = o, !.was = Views(mem)]
    /\ m' = Mat(h, o)
    /\ n' = y
    /\ ret' = IF e = "none" THEN Self(Mat(h, o)) ELSE NoRet
    /\ err' = e
    /\ last' = l
    /\ nops' = nops + 1
    /\ UNCHANGED <<pool, threads>>

CallAppendRow ==
    /\ Running
    /\ \E len \in 0..MaxCols :
         LET out == AppendRow(mem.arrays, mem.src, SliceArg(len))
         IN  Outcome(out.arrays, out.obj, n,
                     Call("AppendRow", mem.src.buf, 0, "slice", SliceArg(len), n), out.err)

CallAppendCol ==
    /\ Running
    /\ \E len \in 0..MaxRows, spare \in BOOLEAN :
         LET out == AppendCol(mem.arrays, mem.src, SliceArg(len), spare)
         IN  Outcome(out.arrays, out.obj, n,
                     Call("AppendCol", mem.src.buf, 0, "slice", SliceArg(len), n), out.err)

CallConcat ==
    /\ Running
    /\ \E spare \in BOOLEAN :
         \/ \E arg \in Arguments :
              LET passed == NewObject(mem.arrays, arg)
                  out == Concat(passed.arrays, mem.src, passed.obj, spare)
              IN  Outcome(out.arrays, out.obj, Mat(out.arrays, passed.obj),
                          Call("Concat", mem.src.buf, 0, "mat", <<>>, arg), out.err)
         \/ LET out == Concat(mem.arrays, mem.src, mem.src, spare)
            IN  Outcome(out.arrays, out.obj, Mat(out.arrays, out.obj),
                        Call("Concat", mem.src.buf, 0, "self", <<>>, m), out.err)

NextGrow ==
    \/ CallAppendRow
    \/ CallAppendCol
    \/ CallConcat

SpecGrow == InitBuf /\ [][NextGrow]_vars

(***************************************************************************)
(* Dot on a square receiver: against the identity constructor (Eyef64 of  *)
(* any size in reach, then m.Dot(n)), and against the receiver itself.     *)
(***************************************************************************)
\* the square receivers: one value everywhere but at up to two positions
SquareInputs ==
    UNION { { Matf64FromData([k \in 1..(d * d) |-> IF k = p \/ k = q THEN b ELSE a], d, d) :
              p \in 0..(d * d), q \in 0..(d * d),
              a \in 0..MaxVal, b \in 0..MaxVal } :
            d \in 1..MaxCols }

InitEye == Start(SquareInputs)

CallEyef64 ==
    /\ Once
    /\ \E x \in 1..MaxCols :
         /\ n' = Eyef64(x)
         /\ last' = Call("Eyef64", x, 0, "none", <<>>, n)
         /\ nops' = nops + 1
         /\ UNCHANGED <<m, pool, ret, err, mem, threads>>

CallDotEye ==
    /\ err = "none" /\ last.op = "Eyef64"
    /\ LET o == Dot(m, n, pool) IN
         /\ m' = o.m /\ n' = o.n /\ pool' = o.pool /\ ret' = o.ret /\ err' = o.err
         /\ last' = Call("Dot", 0, 0, "none", <<>>, n)
         /\ nops' = nops + 1
         /\ UNCHANGED <<mem, threads>>

\* m.Dot(m)
CallDotSelf ==
    /\ Once
    /\ LET o == DotSelf(m, pool) IN
         /\ m' = o.m /\ n' = o.n /\ pool' = o.pool /\ ret' = o.ret /\ err' = o.err
         /\ last' = Call("DotSelf", 0, 0, "self", <<>>, m)
         /\ nops' = nops + 1
         /\ UNCHANGED <<mem, threads>>

NextEye ==
    \/ CallEyef64
    \/ CallDotEye
    \/ CallDotSelf

SpecEye == InitEye /\ [][NextEye]_vars

(***************************************************************************)
(* Concurrent callers.  Each thread makes one call: T on a matrix of its   *)
(* own (as constructed, or grown by Append), or Dot with an argument of    *)
(* its own or with the matrix n every thread can reach; one more thread    *)
(* reads n once, at any moment.  The pool is the channel of bucket         *)
(* pointers; mem.buckets holds what each bucket points to.  A step is the  *)
(* code between two channel operations, T's size test apart.  mem.other    *)
(* is the bucket of a T call in progress on a thread outside Threads: the  *)
(* pool is full only after more callers than the channel has slots.        *)
(***************************************************************************)
Threads == {1, 2}

CallKinds == <<"T", "TGrown", "Dot", "DotShared">>

\* what an earlier transpose left in a bucket
Stale == Data(90, 6)

\* the receiver of thread t
OwnReceiver(t, call) ==
    IF call = "T" THEN Matf64FromData(Data(10 * t, 6), 2, 3)
    ELSE IF call = "TGrown"
    THEN Append_(Matf64FromData(Data(10 * t, 4), 2, 2),
                 Matf64FromData(Data(10 * t + 4, 4), 2, 2)).m
    ELSE Matf64FromData(Data(10 * t, 4), 2, 2)

\* the argument of thread t's Dot when it is its own
OwnArgument(t) == Matf64FromData(Data(10 * t + 4, 6), 2, 3)

SharedArgument == Matf64FromData(Data(0, 4), 2, 2)

IsDot(call) == call = "Dot" \/ call = "DotShared"

FirstPc(call) == IF IsDot(call) THEN "dot" ELSE "T"

\* the buckets the channel holds, as the sequential program sees them
PoolVals(p, h) == [k \in 1..Len(p) |-> h[p[k]]]

InitConc ==
    /\ \E f \in [Threads -> 1..Len(CallKinds)], full \in BOOLEAN :
         /\ \A s \in Threads, t \in Threads : s < t => f[s] <= f[t]
         /\ threads = [t \in Threads |->
                [call |-> CallKinds[f[t]], pc |-> FirstPc(CallKinds[f[t]]), phase |-> 0,
                 held |-> 0, out |-> NoRet]]
         /\ pool = IF full THEN [k \in 1..PoolCap |-> k] ELSE <<>>
         /\ LET h == IF full THEN [k \in 1..(PoolCap + 1) |-> IF k <= PoolCap THEN Stale ELSE <<>>]
                     ELSE <<>>
                x == [t \in Threads |-> OwnReceiver(t, CallKinds[f[t]])]
                y == [t \in Threads |-> OwnArgument(t)]
            IN  mem = [x |-> x, y |-> y, n |-> SharedArgument, buckets |-> h,
                       other |-> IF full THEN PoolCap + 1 ELSE 0,
                       x0 |-> x, y0 |-> y, n0 |-> SharedArgument,
                       pool0 |-> PoolVals(pool, h), seen |-> NoRet]
    /\ m = Newf64(0, 0)
    /\ n = Newf64(0, 0)
    /\ ret = NoRet
    /\ last = NoCall
    /\ err = "none"
    /\ nops = 0

\* the matrix T works on: the receiver of T, the argument of Dot
Transposed(mm, th, t) ==
    IF ~IsDot(th.call) THEN mm.x[t]
    ELSE IF th.call = "Dot" THEN mm.y[t] ELSE mm.n

\* T working on a copy: the caller's matrix keeps its fields
WithTransposed_Kept(mm, th, t, x) == mm

\* the heap after T's stores to the matrix it works on
WithTransposed(mm, th, t, x) ==
    IF ~IsDot(th.call) THEN [mm EXCEPT !.x[t] = x]
    ELSE IF th.call = "Dot" THEN [mm EXCEPT !.y[t] = x] ELSE [mm EXCEPT !.n = x]

\* where a thread goes on when T returns
AfterT(th) == IF IsDot(th.call) /\ th.phase = 1 THEN "loop" ELSE "done"

\* what the caller of T holds when it returns
ResultOfT(th, x) == IF IsDot(th.call) THEN th.out ELSE Self(x)

\* f64Pool.get() on the channel p of pointers into h
Checkout(p, h) ==
    LET g == get(p)
    IN  IF Len(p) > 0 THEN [id |-> g.bucket, pool |-> g.pool, buckets |-> h]
        ELSE [id |-> Len(h) + 1, pool |-> g.pool, buckets |-> Append(h, g.bucket)]

Step(t, th, mm, p, e) ==
    /\ threads' = [threads EXCEPT ![t] = th]
    /\ mem' = mm
    /\ pool' = p
    /\ err' = e
    /\ UNCHANGED <<m, n, ret, last, nops>>

At_(t, pc) == err = "none" /\ threads[t].pc = pc

\* Dot up to its call of n.T(): the shape test and the result's allocation
DotEnter(t) ==
    /\ At_(t, "dot")
    /\ LET th == threads[t]
           x == mem.x[t]
           y == Transposed(mem, th, t)
       IN  IF x.c # y.r THEN Step(t, th, mem, pool, "DimensionError")
           ELSE IF ~CanMake(x.r, y.c) THEN Step(t, th, mem, pool, "panic")
           ELSE Step(t, [th EXCEPT !.pc = "T", !.phase = 1, !.out = Fresh(Newf64(x.r, y.c))],
                     mem, pool, "none")

\* T up to the checkout: a vector is reshaped and T returns
TGet(t) ==
    /\ At_(t, "T")
    /\ LET th == threads[t]
           x == Transposed(mem, th, t)
           sw == [x EXCEPT !.r = x.c, !.c = x.r]
           g == Checkout(pool, mem.buckets)
       IN  IF isRowVector(x) \/ isColVector(x)
           THEN Step(t, [th EXCEPT !.pc = AfterT(th), !.out = ResultOfT(th, sw)],
                     WithTransposed(mem, th, t, sw), pool, "none")
           ELSE Step(t, [th EXCEPT !.pc = "size", !.held = g.id],
                     [mem EXCEPT !.buckets = g.buckets], g.pool, "none")

\* the bucket kept as the pool handed it out
TSize_Never(h, id, x) == h

\* the bucket's slice is replaced when it is shorter than the matrix
TSize(h, id, x) ==
    IF Len(h[id]) < x.c * x.r THEN [h EXCEPT ![id] = Zeros(x.c * x.r)] ELSE h

TResize(t) ==
    /\ At_(t, "size")
    /\ LET th == threads[t]
           x == Transposed(mem, th, t)
       IN  Step(t, [th EXCEPT !.pc = "fill"],
                [mem EXCEPT !.buckets = TSize(mem.buckets, th.held, x)], pool, "none")

\* the double loop into the bucket: a store past its end panics
TLoop(t) ==
    /\ At_(t, "fill")
    /\ LET th == threads[t]
           x == Transposed(mem, th, t)
           b == mem.buckets[th.held]
       IN  IF x.r > 0 /\ x.c > 0 /\ Len(b) < x.r * x.c
           THEN Step(t, th, mem, pool, "panic")
           ELSE Step(t, [th EXCEPT !.pc = "copy"],
                     [mem EXCEPT !.buckets[th.held] = TFill(x, b)], pool, "none")

\* m.r, m.c = m.c, m.r; copy(m.vals, n.vals)
TCopy(t) ==
    /\ At_(t, "copy")
    /\ LET th == threads[t]
           x == Transposed(mem, th, t)
           y == [r |-> x.c, c |-> x.r, vals |-> CopyInto(x.vals, mem.buckets[th.held])]
       IN  Step(t, [th EXCEPT !.pc = "put", !.out = ResultOfT(th, y)],
                WithTransposed(mem, th, t, y), pool, "none")

\* the deferred f64Pool.put(n), and T returns
TPut(t) ==
    /\ At_(t, "put")
    /\ LET th == threads[t]
       IN  Step(t, [th EXCEPT !.pc = AfterT(th), !.held = 0,
                              !.out = IF IsDot(th.call) THEN th.out
                                      ELSE Self(Transposed(mem, th, t))],
                mem, put(pool, th.held), "none")

\* Dot's row loops over the transposed argument, then the deferred n.T()
DotLoop(t) ==
    /\ At_(t, "loop")
    /\ LET th == threads[t]
           x == mem.x[t]
           y == Transposed(mem, th, t)
       IN  Step(t, [th EXCEPT !.pc = "T", !.phase = 2,
                              !.out = Fresh([th.out.mat EXCEPT !.vals = DotVals(x, y)])],
                mem, pool, "none")

\* the reader of n: its shape and its elements, once
ReadShared ==
    /\ err = "none" /\ mem.seen = NoRet
    /\ mem' = [mem EXCEPT !.seen = Fresh(mem.n)]
    /\ UNCHANGED <<m, n, pool, ret, last, err, nops, threads>>

\* another thread's T returns its bucket
OtherPut ==
    /\ err = "none" /\ mem.other # 0
    /\ mem' = [mem EXCEPT !.other = 0]
    /\ pool' = put(pool, mem.other)
    /\ UNCHANGED <<m, n, ret, last, err, nops, threads>>

Run(t) ==
    \/ DotEnter(t)
    \/ TGet(t)
    \/ TResize(t)
    \/ TLoop(t)
    \/ TCopy(t)
    \/ TPut(t)
    \/ DotLoop(t)

NextConc ==
    \/ \E t \in Threads : DotEnter(t)
    \/ \E t \in Threads : TGet(t)
    \/ \E t \in Threads : TResize(t)
    \/ \E t \in Threads : TLoop(t)
    \/ \E t \in Threads : TCopy(t)
    \/ \E t \in Threads : TPut(t)
    \/ \E t \in Threads : DotLoop(t)
    \/ ReadShared
    \/ OtherPut

SpecConc == InitConc /\ [][NextConc]_vars

\* the scheduler runs every thread that can take a step
SpecConcFair == SpecConc /\ \A t \in Threads : WF_vars(Run(t))

(***************************************************************************)
(* Preconditions: one call of an operation that tests a shape or a length  *)
(* before it works, on a constructed receiver in the memory model.         *)
(***************************************************************************)
FirstReshape == Once /\ CallReshape

FirstReshapef32 ==
    /\ Once
    /\ \E rows \in ColDims, cols \in ColDims :
         Unary(Reshapef32(m, rows, cols), Call("Reshapef32", rows, cols, "none", <<>>, n))

FirstDot == Once /\ CallDot

FirstAppend == Once /\ CallAppend

FirstAppendRow == Once /\ CallAppendRow

FirstAppendCol == Once /\ CallAppendCol

FirstConcat == Once /\ CallConcat

NextFirst ==
    \/ FirstReshape
    \/ FirstReshapef32
    \/ CallMul
    \/ CallAdd
    \/ CallSub
    \/ CallDiv
    \/ FirstDot
    \/ FirstAppend
    \/ FirstAppendRow
    \/ FirstAppendCol
    \/ FirstConcat

SpecFirst == InitBuf /\ [][NextFirst]_vars

(***************************************************************************)
(* What the documentation says of a matrix, stated without the code's      *)
(* helpers: element (i,j) lives at offset i*cols+j.                        *)
(***************************************************************************)
Elem(x, i, j) == At(x.vals, i * x.c + j)

Resolve(i, dim) == IF i < 0 THEN dim + i ELSE i

InDim(i, dim) == (0 - dim) <= i /\ i < dim

RECURSIVE SumK(_, _, _, _, _)
SumK(x, y, i, j, k) ==
    IF k <= 0 THEN 0
    ELSE SumK(x, y, i, j, k - 1) + Elem(x, i, k - 1) * Elem(y, k - 1, j)

Returned(op) == last.op = op /\ err = "none"

\* C1 (as claimed): after every call that completes without error, every
\* matrix (the receiver, the argument, a returned matrix) has
\* len(vals) = r*c.
C1_LenIsRowsTimesCols ==
    err = "none" =>
        /\ Len(m.vals) = m.r * m.c
        /\ Len(n.vals) = n.r * n.c
        /\ Len(ret.mat.vals) = ret.mat.r * ret.mat.c

\* C2 (as claimed): m.Append(n) with equal column counts leaves m with
\* shape (m.rows + n.rows, m.cols), its old rows first and then n's rows.
C2_AppendStacksRows ==
    (last.op = "Append" /\ last.m0.c = last.n0.c) =>
        /\ err = "none"
        /\ m.r = last.m0.r + last.n0.r
        /\ m.c = last.m0.c
        /\ m.vals = last.m0.vals \o last.n0.vals

\* C3 (as claimed): for all matrices m, n with m.cols = n.rows, m.Dot(n)
\* returns a new matrix of shape (m.rows, n.cols) whose element (i,j) is
\* the sum over k of m(i,k)*n(k,j).
C3_DotIsMatrixProduct ==
    (last.op = "Dot" /\ last.m0.c = last.n0.r) =>
        /\ err = "none"
        /\ ret.kind = "new"
        /\ ret.mat.r = last.m0.r
        /\ ret.mat.c = last.n0.c
        /\ Len(ret.mat.vals) = ret.mat.r * ret.mat.c
        /\ \A i \in 0..(ret.mat.r - 1), j \in 0..(ret.mat.c - 1) :
             Elem(ret.mat, i, j) = SumK(last.m0, last.n0, i, j, last.m0.c)

\* C4 (as claimed): when m.Dot(n) returns, n has its pre-call shape and
\* buffer contents and m is unchanged.
C4_DotRestoresArgument ==
    Returned("Dot") => (n = last.n0 /\ m = last.m0)

\* C5 (as claimed): two calls of T in a row restore the matrix: its shape
\* and every element of its buffer are what they were before the two calls.
C5_DoubleTransposeIsIdentity ==
    (Returned("T") /\ last.prev.op = "T") => m = last.prev.m0

C7_ReshapeKeepsBuffer ==
    last.op = "Reshape" =>
        IF last.a * last.b = last.m0.r * last.m0.c
        THEN /\ err = "none"
             /\ m.r = last.a /\ m.c = last.b
             /\ m.vals = last.m0.vals
        ELSE err = "ShapeError" /\ m = last.m0

C7_Witness ==
    /\ Returned("Reshape")
    /\ last.m0.r = 2 /\ last.m0.c = 3
    /\ m.r = 3 /\ m.c = 2

\* C8: Row(i) succeeds exactly when -rows <= i < rows and returns a new
\* 1 x cols matrix holding row i (row rows+i for i < 0), the receiver
\* unchanged; Col(j) likewise returns rows x 1; Row(-1) equals Row(rows-1),
\* Col(-1) equals Col(cols-1); any other index is an index error.
C8_RowColNegativeIndex ==
    /\ last.op = "Row" =>
         IF InDim(last.a, last.m0.r)
         THEN /\ err = "none"
              /\ ret.kind = "new"
              /\ ret.mat.r = 1 /\ ret.mat.c = last.m0.c
              /\ Len(ret.mat.vals) = last.m0.c
              /\ \A j \in 0..(last.m0.c - 1) :
                   Elem(ret.mat, 0, j) = Elem(last.m0, Resolve(last.a, last.m0.r), j)
              /\ m = last.m0
         ELSE err = "IndexError" /\ m = last.m0
    /\ last.op = "Col" =>
         IF InDim(last.a, last.m0.c)
         THEN /\ err = "none"
              /\ ret.kind = "new"
              /\ ret.mat.r = last.m0.r /\ ret.mat.c = 1
              /\ Len(ret.mat.vals) = last.m0.r
              /\ \A i \in 0..(last.m0.r - 1) :
                   Elem(ret.mat, i, 0) = Elem(last.m0, i, Resolve(last.a, last.m0.c))
              /\ m = last.m0
         ELSE err = "IndexError" /\ m = last.m0
    /\ (err = "none" /\ m.r > 0 /\ m.c > 0) =>
         /\ Row(m, 0 - 1) = Row(m, m.r - 1)
         /\ Col(m, 0 - 1) = Col(m, m.c - 1)
         /\ Row(m, 0 - 1).err = "none"
         /\ Col(m, 0 - 1).err = "none"

C8_Witness ==
    /\ Returned("Row")
    /\ last.a = 0 - 2
    /\ last.m0.r = 2 /\ last.m0.c = 3
    /\ ret.mat.vals = <<1, 2, 3>>

\* the buffer after the elements of row `row` (column `col`) were replaced
RowSet(x, row, kind, v) ==
    [k \in 1..Len(x.vals) |->
        IF k <= x.r * x.c /\ (k - 1) \div x.c = row
        THEN (IF kind = "scalar" THEN v[1] ELSE v[((k - 1) % x.c) + 1])
        ELSE x.vals[k]]

ColSet(x, col, kind, v) ==
    [k \in 1..Len(x.vals) |->
        IF k <= x.r * x.c /\ (k - 1) % x.c = col
        THEN (IF kind = "scalar" THEN v[1] ELSE v[((k - 1) \div x.c) + 1])
        ELSE x.vals[k]]

\* C9: SetRow / SetCol with an index in [-dim, dim) and a scalar or a
\* sequence of exactly the row / column length set exactly the selected
\* row / column and leave every other element and the shape unchanged; a
\* sequence of any other length is an arity error.
C9_SetRowColExact ==
    /\ (last.op = "SetRow" /\ last.kind = "slice" /\ Len(last.v) # last.m0.c) =>
         (err = "ArityError" /\ m = last.m0)
    /\ (last.op = "SetCol" /\ last.kind = "slice" /\ Len(last.v) # last.m0.r) =>
         (err = "ArityError" /\ m = last.m0)
    /\ (/\ last.op = "SetRow"
        /\ InDim(last.a, last.m0.r)
        /\ (last.kind = "scalar" \/ Len(last.v) = last.m0.c)) =>
         /\ err = "none"
         /\ m.r = last.m0.r /\ m.c = last.m0.c
         /\ m.vals = RowSet(last.m0, Resolve(last.a, last.m0.r), last.kind, last.v)
    /\ (/\ last.op = "SetCol"
        /\ InDim(last.a, last.m0.c)
        /\ (last.kind = "scalar" \/ Len(last.v) = last.m0.r)) =>
         /\ err = "none"
         /\ m.r = last.m0.r /\ m.c = last.m0.c
         /\ m.vals = ColSet(last.m0, Resolve(last.a, last.m0.c), last.kind, last.v)

C9_Witness ==
    /\ Returned("SetCol")
    /\ last.kind = "slice"
    /\ last.a = 0 - 1
    /\ last.m0.r = 2 /\ last.m0.c = 3
    /\ m.vals = <<1, 2, 21, 4, 5, 22>>

\* C10 (as claimed): SetRow and SetCol with an index outside [-dim, dim)
\* fail with the index error and leave every element unchanged, for a
\* scalar and for a sequence of the right length alike.
C10_SetRowColIndexError ==
    /\ (/\ last.op = "SetRow"
        /\ ~InDim(last.a, last.m0.r)
        /\ (last.kind = "scalar" \/ Len(last.v) = last.m0.c)) =>
         (err = "IndexError" /\ m = last.m0)
    /\ (/\ last.op = "SetCol"
        /\ ~InDim(last.a, last.m0.c)
        /\ (last.kind = "scalar" \/ Len(last.v) = last.m0.r)) =>
         (err = "IndexError" /\ m = last.m0)

(***************************************************************************)
(* Element-wise arithmetic                                                 *)
(***************************************************************************)
ArithOps == {"Mul", "Add", "Sub", "Div"}

\* c is a op b, read off the arithmetic and not off the code
Combined(op, c, a, b) ==
    CASE op = "Add" -> c = a + b
      [] op = "Sub" -> c + b = a
      [] op = "Mul" -> c = a * b
      [] op = "Div" -> b # 0 => c * b = a

C12_ScalarFloat64Accepted ==
    (last.op \in ArithOps /\ last.kind = "float64") =>
        /\ err = "none"
        /\ Len(m.vals) = Len(last.m0.vals)
        /\ \A k \in 1..Len(m.vals) :
              Combined(last.op, m.vals[k], last.m0.vals[k], last.v[1])

(***************************************************************************)
(* Reductions                                                              *)
(***************************************************************************)
\* the offsets of the elements a reduction is documented to select
AllSel(x) == 0..(x.r * x.c - 1)

RowSel(x, i) == { i * x.c + j : j \in 0..(x.c - 1) }

ColSel(x, j) == { j + i * x.c : i \in 0..(x.r - 1) }

Selected(x, args) ==
    IF Len(args) = 0 THEN AllSel(x)
    ELSE IF args[1] = 0 THEN RowSel(x, args[2]) ELSE ColSel(x, args[2])

\* no arguments, or (0, i) with a row i, or (1, j) with a column j
ValidArgs(x, args) ==
    \/ Len(args) = 0
    \/ /\ Len(args) = 2
       /\ \/ args[1] = 0 /\ 0 <= args[2] /\ args[2] < x.r
          \/ args[1] = 1 /\ 0 <= args[2] /\ args[2] < x.c

RECURSIVE SetSum(_, _)
SetSum(vals, S) ==
    IF S = {} THEN 0
    ELSE LET k == CHOOSE k \in S : TRUE IN At(vals, k) + SetSum(vals, S \ {k})

RECURSIVE SetPrd(_, _)
SetPrd(vals, S) ==
    IF S = {} THEN 1
    ELSE LET k == CHOOSE k \in S : TRUE IN At(vals, k) * SetPrd(vals, S \ {k})

\* the sum over S of (mean - v)^2, times card^2, mean being the mean over S
RECURSIVE SetSqDev(_, _, _, _)
SetSqDev(vals, S, total, card) ==
    IF S = {} THEN 0
    ELSE LET k == CHOOSE k \in S : TRUE
             d == total - card * At(vals, k)
         IN  d * d + SetSqDev(vals, S \ {k}, total, card)

\* a/b = c/d as floats: equal quotients, or both the NaN of 0/0
SameQuotient(a, b, c, d) == a * d = c * b /\ (b = 0 <=> d = 0)

C14_StdPopulation ==
    (last.op = "Std" /\ Len(last.v) = 2 /\ ValidArgs(last.m0, last.v)) =>
        LET x == last.m0
            S == Selected(x, last.v)
            card == Cardinality(S)
        IN  /\ err = "none"
            /\ SameQuotient(ret.num, ret.den,
                            SetSqDev(x.vals, S, SetSum(x.vals, S), card),
                            card * card * card)

\* the no-argument form of a reduction, as the program computes it
NoArgs(op, x) ==
    CASE op = "Sum" -> Sum(x, <<>>)
      [] op = "Avg" -> Avg(x, <<>>)
      [] op = "Prd" -> Prd(x, <<>>)
      [] op = "Std" -> Std(x, <<>>)

ReduceOps == {"Sum", "Avg", "Prd", "Std", "Min", "Max"}

\* C16: a reduction called with two arguments fails with the axis error
\* when the axis is neither 0 nor 1, and with the index error when the
\* index is negative or not below rows (axis 0) or cols (axis 1); called
\* with one argument or three it fails with the argument-count error; a
\* call that failed so indexed no offset outside the buffer.
C16_ReduceErrors ==
    last.op \in ReduceOps =>
        LET x == last.m0
            a == last.v
        IN  /\ (Len(a) = 2 /\ a[1] \notin {0, 1}) => err = "AxisError"
            /\ (Len(a) = 2 /\ a[1] = 0 /\ (a[2] < 0 \/ a[2] >= x.r)) => err = "IndexError"
            /\ (Len(a) = 2 /\ a[1] = 1 /\ (a[2] < 0 \/ a[2] >= x.c)) => err = "IndexError"
            /\ Len(a) \notin {0, 2} => err = "ArgCountError"
            /\ err \in {"AxisError", "IndexError", "ArgCountError"} =>
                  \A k \in 1..Len(ret.reads) : InRange(x.vals, ret.reads[k])

C16_Witness ==
    /\ last.op = "Min" /\ last.v = <<1, 0 - 1>> /\ err = "IndexError"
    /\ last.m0.r = 2 /\ last.m0.c = 2

\* the position of offset o in the scan of the selected elements
ScanPos(x, args, o) ==
    IF Len(args) = 0 THEN o
    ELSE IF args[1] = 0 THEN o - args[2] * x.c
    ELSE (o - args[2]) \div x.c

AliasOps ==
    {"Copy", "Row", "Col", "ToSlice1D", "ToSlice2D", "Matf64FromData",
     "Set", "store", "AppendRow"}

\* C18: a call that takes a result from the source matrix (Copy, Row, Col,
\* ToSlice1D, ToSlice2D), or builds a matrix from the caller's data, leaves
\* the source and the data as they were; a write through the result
\* leaves the source and the data as they were, a write through the source
\* (an element store or an AppendRow) leaves the result and the data as
\* they were, and a write to the data leaves both matrices as they were;
\* the result of Copy has the shape and the element values of the source.
C18_NoSharedBuffer ==
    last.op \in AliasOps =>
        LET now == Views(mem)
        IN  /\ last.kind # "src" => now.src = mem.was.src
            /\ last.kind \notin {"res", "new"} => now.res = mem.was.res
            /\ last.kind # "data" => now.data = mem.was.data
            /\ (last.op = "Copy" /\ err = "none") =>
                  /\ now.res.kind = "matrix"
                  /\ now.res.r = now.src.r /\ now.res.c = now.src.c
                  /\ now.res.vals = <<now.src.vals>>

C18_Witness ==
    /\ last.op = "Set" /\ last.kind = "res" /\ err = "none"
    /\ last.prev.op = "Copy"
    /\ mem.was.res.vals = <<mem.was.src.vals>>
    /\ Views(mem).res # mem.was.res
    /\ m.r = 2 /\ m.c = 2

(***************************************************************************)
(* Concat, AppendRow, AppendCol                                            *)
(***************************************************************************)
\* C19: m.Concat(n) with equal row counts leaves m with m's old row count
\* and the sum of the two column counts, each row i being m's old row i
\* followed by n's row i, and leaves a distinct n as it was; with n being m
\* itself each row is followed by itself; unequal row counts are the
\* row-mismatch error.
C19_ConcatRows ==
    last.op = "Concat" =>
        LET x == last.m0
            y == IF last.kind = "self" THEN last.m0 ELSE last.n0
        IN  IF x.r = y.r
            THEN /\ err = "none"
                 /\ m.r = x.r /\ m.c = x.c + y.c
                 /\ \A i \in 0..(x.r - 1) :
                       /\ \A j \in 0..(x.c - 1) : Elem(m, i, j) = Elem(x, i, j)
                       /\ \A j \in 0..(y.c - 1) : Elem(m, i, x.c + j) = Elem(y, i, j)
                 /\ last.kind = "mat" => n = last.n0
            ELSE err = "RowMismatchError"

C21_DotEyeIsIdentity ==
    (/\ last.op = "Dot"
     /\ last.prev.op = "Eyef64"
     /\ last.m0.r = last.m0.c
     /\ last.n0.r = last.m0.r) =>
        /\ err = "none"
        /\ Equals(ret.mat, last.m0)

(***************************************************************************)
(* The pool under concurrent callers.                                      *)
(***************************************************************************)
\* the buckets checked out by a T call in progress
Held == { threads[t].held : t \in Threads } \ {0}

InPool(id) == \E k \in 1..Len(pool) : pool[k] = id

\* C22: under any interleaving of concurrent T / Dot calls no bucket is held
\* by two T calls in progress at once, and a bucket held by a T call in
\* progress is not in the pool: a checkout is owned from get until put.
C22_ExclusiveCheckout ==
    /\ \A s \in Threads, t \in Threads :
         (s # t /\ threads[s].held # 0) => threads[s].held # threads[t].held
    /\ \A t \in Threads :
         threads[t].held # 0 => (threads[t].held # mem.other /\ ~InPool(threads[t].held))
    /\ mem.other # 0 => ~InPool(mem.other)

C22_Witness ==
    /\ threads[1].held # 0 /\ threads[2].held # 0
    /\ threads[1].pc = "copy" /\ threads[2].pc = "fill"
    /\ Len(pool) > 0

AllDone == \A t \in Threads : threads[t].pc = "done"

\* thread t checks a bucket out in this step
Gets(t) == threads[t].pc = "T" /\ threads'[t].pc = "size"

\* thread t returns its bucket in this step
Puts(t) == threads[t].pc = "put" /\ threads'[t].pc # "put"

\* what get and put do to the channel in a step
GetPutStep ==
    /\ \A t \in Threads :
         (Gets(t) /\ Len(pool) = 0) =>
             /\ threads'[t].held \notin DOMAIN mem.buckets
             /\ mem'.buckets[threads'[t].held] = <<>>
             /\ pool' = pool
    /\ \A t \in Threads :
         Puts(t) => pool' = IF Len(pool) = PoolCap THEN pool
                            ELSE Append(pool, threads[t].held)
    /\ (mem.other # 0 /\ mem'.other = 0) =>
            pool' = IF Len(pool) = PoolCap THEN pool ELSE Append(pool, mem.other)

\* C23: get and put never block: get on an empty pool returns a freshly
\* allocated empty bucket, put on a pool that holds 10 buckets discards the
\* bucket, the pool never holds more than 10 buckets, and every T and Dot
\* call runs to completion whatever the other callers do and whatever the
\* pool holds.
C23_PoolNeverBlocks ==
    /\ [](Len(pool) <= PoolCap)
    /\ [][GetPutStep]_vars
    /\ <>AllDone

\* every call has returned, and a bucket was dropped at a full pool
C23_Witness ==
    /\ AllDone
    /\ Len(pool) = PoolCap
    /\ mem.other = 0
    /\ Len(mem.buckets) > PoolCap
    /\ threads[1].call = "Dot" /\ threads[2].call = "DotShared"

\* C24: in T's general path the scratch buffer is at least rows*cols long
\* before the first element is written to it, whatever bucket the pool
\* handed out (a new one of length zero, or one an earlier transpose of a
\* smaller matrix left shorter), so no store goes past the buffer's end.
C24_ScratchLongEnough ==
    /\ err # "panic"
    /\ \A t \in Threads :
         threads[t].pc = "fill" =>
            LET x == Transposed(mem, threads[t], t)
            IN  Len(mem.buckets[threads[t].held]) >= x.r * x.c

\* thread 2 is about to fill the bucket thread 1 left four elements long
C24_Witness ==
    /\ threads[1].call = "TGrown" /\ threads[1].pc = "done"
    /\ threads[2].call = "Dot" /\ threads[2].pc = "fill" /\ threads[2].held = 1
    /\ Len(mem.buckets) = 1
    /\ mem.buckets[1] = Zeros(6)

(***************************************************************************)
(* The pool and what a caller can read.                                    *)
(***************************************************************************)
\* pools that differ in what earlier transposes of other matrices left
OtherPools == {<<>>, <<Stale>>, <<Zeros(4), Stale>>}

\* what Shape, ToSlice1D, ToSlice2D and Get show of x
Readable(x) == [shape |-> <<x.r, x.c>>, elements |-> ToSlice1D(x)]

\* C25 (as claimed): the pool leaks nothing between matrices: what a caller
\* can read from a matrix after T or Dot is the same whatever the pool's
\* buckets held beforehand, also for a matrix grown by Append beforehand.
C25_PoolLeaksNothing ==
    /\ Returned("T") =>
         \A p \in OtherPools : Readable(T(last.m0, p).m) = Readable(m)
    /\ Returned("Dot") =>
         \A p \in OtherPools :
            LET o == Dot(last.m0, last.n0, p)
            IN  /\ Readable(o.m) = Readable(m)
                /\ Readable(o.n) = Readable(n)
                /\ Readable(o.ret.mat) = Readable(ret.mat)

\* no matrix is reached by two threads: at most one Dot takes n, nobody reads it
Disjoint ==
    /\ mem.seen = NoRet
    /\ \A s \in Threads, t \in Threads :
         (s # t /\ threads[s].call = "DotShared") => threads[t].call # "DotShared"

\* thread t's call run alone from the initial pool
Alone(t) ==
    LET th == threads[t]
        y0 == IF th.call = "Dot" THEN mem.y0[t] ELSE mem.n0
    IN  IF IsDot(th.call)
        THEN LET o == Dot(mem.x0[t], y0, mem.pool0)
             IN  [x |-> o.m, y |-> o.n, out |-> o.ret]
        ELSE LET o == T(mem.x0[t], mem.pool0)
             IN  [x |-> o.m, y |-> y0, out |-> Self(o.m)]

\* C26 (as claimed): when threads call T or Dot concurrently, each on
\* matrices no other thread touches, then under every interleaving of their
\* steps each call's result and each matrix's final state are those of the
\* same call run alone.
C26_ConcurrentAsAlone ==
    Disjoint =>
        \A t \in Threads :
            threads[t].pc = "done" =>
                /\ mem.x[t] = Alone(t).x
                /\ Transposed(mem, threads[t], t) =
                       (IF IsDot(threads[t].call) THEN Alone(t).y ELSE Alone(t).x)
                /\ threads[t].out = Alone(t).out

(***************************************************************************)
(* Shapes.                                                                 *)
(***************************************************************************)
\* C27 (as claimed): after any sequence of public operations that end
\* without error every matrix has rows >= 0 and cols >= 0: neither the
\* constructors nor Reshape leave a negative count.
C27_NonNegativeShape ==
    err = "none" =>
        /\ m.r >= 0 /\ m.c >= 0
        /\ n.r >= 0 /\ n.c >= 0
        /\ ret.mat.r >= 0 /\ ret.mat.c >= 0

(***************************************************************************)
(* Dot's argument while Dot runs.                                          *)
(***************************************************************************)
\* thread t is the only Dot in reach of its argument
SoleDot(t) ==
    threads[t].call = "DotShared" =>
        \A s \in Threads : s # t => threads[s].call # "DotShared"

\* the argument of thread t's Dot before any call
ArgBefore(t) == IF threads[t].call = "Dot" THEN mem.y0[t] ELSE mem.n0

\* x with rows and columns exchanged, as the documentation defines it
Flipped(x) ==
    [r |-> x.c, c |-> x.r,
     vals |-> [k \in 1..(x.r * x.c) |-> Elem(x, (k - 1) % x.r, (k - 1) \div x.r)]]

\* C28: while m.Dot(n) runs with a non-vector n, n is in its transposed
\* state between Dot's two transposes, where a concurrent reader sees a
\* shape or buffer that differs from n's value before the call; and two
\* concurrent Dot calls on the same n can return a wrong product or leave n
\* changed.  A read that differs from n's first value happens only after a
\* Dot has begun to transpose n.
C28_TransientTranspose ==
    /\ \A t \in Threads :
         (IsDot(threads[t].call) /\ threads[t].pc = "loop" /\ SoleDot(t)) =>
            /\ Transposed(mem, threads[t], t) = Flipped(ArgBefore(t))
            /\ Transposed(mem, threads[t], t) # ArgBefore(t)
    /\ (mem.seen # NoRet /\ mem.seen.mat # mem.n0) =>
         \E t \in Threads :
            /\ threads[t].call = "DotShared"
            /\ \/ threads[t].phase = 2
               \/ threads[t].phase = 1 /\ threads[t].pc \in {"put", "loop"}

\* the reader saw n transposed, both Dot calls on n returned, the first
\* with a result that is not the product, and n is not what it was
C28_Witness ==
    /\ AllDone
    /\ threads[1].call = "DotShared" /\ threads[2].call = "DotShared"
    /\ mem.seen # NoRet /\ mem.seen.mat = Flipped(mem.n0)
    /\ threads[1].out # Dot(mem.x0[1], mem.n0, <<>>).ret
    /\ mem.n # mem.n0

(***************************************************************************)
(* Preconditions.                                                          *)
(***************************************************************************)
PreconditionErrors ==
    {"ShapeError", "DimensionError", "ColumnMismatchError", "RowMismatchError", "LengthError"}

\* the error the call recorded in last must end with, "none" if its
\* shape or length precondition holds
Expected ==
    LET x == last.m0
        y == last.n0
    IN  IF last.op \in {"Reshape", "Reshapef32"}
        THEN (IF last.a * last.b # x.r * x.c THEN "ShapeError" ELSE "none")
        ELSE IF last.op \in ArithOps /\ last.kind \in {"mat", "self"}
        THEN (IF x.r # y.r \/ x.c # y.c THEN "ShapeError" ELSE "none")
        ELSE IF last.op = "Dot" THEN (IF x.c # y.r THEN "DimensionError" ELSE "none")
        ELSE IF last.op = "Append" THEN (IF x.c # y.c THEN "ColumnMismatchError" ELSE "none")
        ELSE IF last.op = "Concat" THEN (IF x.r # y.r THEN "RowMismatchError" ELSE "none")
        ELSE IF last.op = "AppendRow" THEN (IF Len(last.v) # x.c THEN "LengthError" ELSE "none")
        ELSE IF last.op = "AppendCol" THEN (IF Len(last.v) # x.r THEN "LengthError" ELSE "none")
        ELSE "none"

\* C29: for Reshape, Add / Sub / Mul / Div with a matrix operand, Dot,
\* Append, Concat, AppendRow and AppendCol a failing shape or length
\* precondition is reported, and when it is reported the receiver and the
\* argument have their shape and buffer of before the call: Dot has not
\* transposed its argument, Reshape has not assigned the new shape.
C29_ErrorBeforeChange ==
    /\ Expected # "none" => err = Expected
    /\ err \in PreconditionErrors =>
          /\ err = Expected
          /\ m = last.m0
          /\ n = last.n0
          /\ pool = last.pool0
          /\ Views(mem).src = mem.was.src

\* Dot refused a 2x3 argument and left it as it was
C29_Witness ==
    /\ last.op = "Dot" /\ err = "DimensionError"
    /\ last.n0.r = 2 /\ last.n0.c = 3
    /\ last.m0.r = 2 /\ last.m0.c = 3
    /\ n = last.n0

(***************************************************************************)
(* Dot with the receiver as its own argument.                              *)
(***************************************************************************)
\* C30 (as claimed): for a square matrix m that is no vector, m.Dot(m)
\* returns the product m*m, element (i,j) being the sum over k of
\* m(i,k)*m(k,j), and leaves m unchanged.
C30_DotSelfIsSquare ==
    (last.op = "DotSelf" /\ last.m0.r = last.m0.c /\ last.m0.r >= 2) =>
        /\ err = "none"
        /\ ret.mat.r = last.m0.r
        /\ ret.mat.c = last.m0.c
        /\ \A i \in 0..(ret.mat.r - 1), j \in 0..(ret.mat.c - 1) :
             Elem(ret.mat, i, j) = SumK(last.m0, last.m0, i, j, last.m0.c)
        /\ m = last.m0

====
